---- MODULE Spec2Model ----
(***************************************************************************)
(* A model of the incremental coupon crawler of CheapPizza                 *)
(* (src/unnamed/part_000): candidate generation (parseArgsToCodes), the    *)
(* validity probe (checkCouponValidity), the detail fetch                  *)
(* (fetchCouponDetails) and the load / scan / merge / persist steps of     *)
(* main.                                                                   *)
(*                                                                         *)
(* Strings that the code parses are sequences of one-character strings, so *)
(* that includes, split, Number, String and padStart are computed the way  *)
(* JavaScript computes them.                                               *)
(***************************************************************************)
EXTENDS Integers, Sequences, FiniteSets, TLC

VARIABLES
  argv,             \* process.argv.slice(2): the tokens given on the command line
  args,             \* main's args: argv, or DEFAULT_RANGES when argv is empty
  codes,            \* parseArgsToCodes(args)
  now,              \* new Date() taken when the prior collection is filtered
  loadedCoupons,    \* JSON.parse of the existing file, or NoFile
  existingCoupons,  \* the retained prior records
  existingCodes,    \* the set of their codes
  codesToScan,      \* codes without the known ones
  idx,              \* position of the for-of loop in codesToScan
  typeId,           \* the upstream identifier of the code being fetched
  validCoupons,     \* the records found by this run
  globalCookie,     \* the session token captured from probe responses
  pc,               \* where main is
  pubDir,           \* does <cwd>/public exist
  pubFile,          \* public/coupons.json
  cwdFile,          \* ./coupons.json
  metaFile,         \* metadata.json beside the collection file
  run,              \* number of runs started
  reqLog,           \* the requests this run has issued, in order, and how each ended
  written,          \* did this run's collection write succeed
  sentCookie,       \* the Cookie header of the request in flight
  writeLog,         \* the file writes this run has attempted, in order
  inText,           \* the text given to an extractor
  outValue,         \* what the extractor returned
  ct,               \* the menu crawler's category counter
  allProducts,      \* the menu crawler's products so far
  menuLog,          \* how each category fetch of the menu crawler ended
  menuFile,         \* public/menu.json
  inResponse,       \* the response given to a request function applied on its own
  inPage,           \* the detail page given to fetchCouponDetails applied on its own
  site,             \* what the front end's three static files answer
  app               \* the state of the front end's App component

vars == <<argv, args, codes, now, loadedCoupons, existingCoupons, existingCodes,
          codesToScan, idx, typeId, validCoupons, globalCookie, pc, pubDir,
          pubFile, cwdFile, metaFile, run, reqLog, written, sentCookie,
          writeLog, inText, outValue, ct, allProducts, menuLog, menuFile,
          inResponse, inPage, site, app>>

\* the variables of the extractors and of the menu crawler
extractVars == <<inText, outValue>>
menuVars == <<ct, allProducts, menuLog, menuFile>>
\* the inputs of the request functions applied on their own, and the front end
callVars == <<inResponse, inPage>>
appVars == <<site, app>>

-----------------------------------------------------------------------------
(* Bounds of the model *)

\* longest input token, in characters
MaxTokLen == 3
\* number of crawler runs in one behaviour
MaxRuns == 2
\* the clock: new Date() is one of 1..MaxNow
MaxNow == 3
\* clock ticks in a calendar day: a date string denotes the first tick of its day
TicksPerDay == 2

\* characters an input token is made of: digits, the range hyphen, a letter
TokenChars == {"0", "1", "-", "a"}

-----------------------------------------------------------------------------
(* JavaScript strings and numbers *)

DigitChars == <<"0", "1", "2", "3", "4", "5", "6", "7", "8", "9">>

IsDigit(ch) == \E d \in 1..Len(DigitChars) : DigitChars[d] = ch

DigitValue(ch) == (CHOOSE d \in 1..Len(DigitChars) : DigitChars[d] = ch) - 1

IsDigits(s) == Len(s) > 0 /\ \A k \in 1..Len(s) : IsDigit(s[k])

RECURSIVE DecValue(_)
DecValue(s) ==
  IF s = <<>> THEN 0
  ELSE 10 * DecValue(SubSeq(s, 1, Len(s) - 1)) + DigitValue(s[Len(s)])

\* a JavaScript number: NaN, or a value
NaN == [nan |-> TRUE, val |-> 0]
Num(n) == [nan |-> FALSE, val |-> n]
IsNaN(x) == x.nan
\* a <= b and a >= b are false when either side is NaN
Leq(a, b) == ~a.nan /\ ~b.nan /\ a.val <= b.val
Geq(a, b) == ~a.nan /\ ~b.nan /\ a.val >= b.val

\* Number(s) for a string s: "" is 0, a decimal literal is its value (with an
\* optional sign), anything else is NaN
ToNumber(s) ==
  IF s = <<>> THEN Num(0)
  ELSE IF IsDigits(s) THEN Num(DecValue(s))
  ELSE IF s[1] = "-" /\ IsDigits(Tail(s)) THEN Num(0 - DecValue(Tail(s)))
  ELSE NaN

\* String(n) for an integer n >= 0
RECURSIVE StringOf(_)
StringOf(n) ==
  IF n < 10 THEN <<DigitChars[n + 1]>>
  ELSE StringOf(n \div 10) \o <<DigitChars[(n % 10) + 1]>>

\* s.padStart(width, ch)
RECURSIVE PadStart(_, _, _)
PadStart(s, width, ch) ==
  IF Len(s) >= width THEN s ELSE PadStart(<<ch>> \o s, width, ch)

\* s.includes(ch)
Includes(s, ch) == \E k \in 1..Len(s) : s[k] = ch

\* s.split(ch): the pieces between the occurrences of ch; always at least one
RECURSIVE Split(_, _)
Split(s, ch) ==
  IF ~Includes(s, ch) THEN <<s>>
  ELSE LET k == CHOOSE j \in 1..Len(s) :
                   s[j] = ch /\ \A m \in 1..(j - 1) : s[m] # ch
       IN <<SubSeq(s, 1, k - 1)>> \o Split(SubSeq(s, k + 1, Len(s)), ch)

-----------------------------------------------------------------------------
(* Candidate generation *)

\* codes are padded to this width
CodeWidth == 5

\* the loop with i < end: the last code of a range is lost
RECURSIVE RangeCodesExclusive(_, _)
RangeCodesExclusive(start, end) ==
  IF start >= end THEN <<>>
  ELSE <<PadStart(StringOf(start), CodeWidth, "0")>>
         \o RangeCodesExclusive(start + 1, end)

\* for (let i = start; i <= end; i++) codes.push(String(i).padStart(5, '0'))
RECURSIVE RangeCodes(_, _)
RangeCodes(start, end) ==
  IF start > end THEN <<>>
  ELSE <<PadStart(StringOf(start), CodeWidth, "0")>> \o RangeCodes(start + 1, end)

\* the body of args.forEach: what one token adds to codes
TokenCodes(arg) ==
  IF Includes(arg, "-")
  THEN LET parts == Split(arg, "-")
           start == ToNumber(parts[1])
           end   == ToNumber(parts[2])
       IN IF ~IsNaN(start) /\ ~IsNaN(end) /\ Leq(start, end)
          THEN RangeCodes(start.val, end.val)
          ELSE <<>>
  ELSE IF ~IsNaN(ToNumber(arg))
       THEN <<PadStart(arg, CodeWidth, "0")>>
       ELSE <<>>

RECURSIVE parseArgsToCodes(_)
parseArgsToCodes(as) ==
  IF as = <<>> THEN <<>>
  ELSE TokenCodes(Head(as)) \o parseArgsToCodes(Tail(as))

-----------------------------------------------------------------------------
(* Dates, records and files *)

\* validUntil strings of the model: none, a calendar date, and a string that
\* the detail extractor's date pattern accepts but that is no date
NoDate == ""
ADate == "2025-01-01"
BadDate == "2025-13-45"
Expiries == {NoDate, ADate, BadDate}

\* new Date(s).getTime(): the first tick of the day for a calendar date,
\* NaN (Invalid Date) for a string that is no date
DateTime(s) ==
  IF s = ADate THEN Num(TicksPerDay) ELSE NaN

\* a file: absent, or present with a text that is a JSON array of records
\* (json TRUE) or not JSON at all
NoFile == [exists |-> FALSE, json |-> FALSE, data |-> <<>>]
JsonFile(data) == [exists |-> TRUE, json |-> TRUE, data |-> data]

\* coupons.map(c => c.code), as a set
CodesOf(coupons) == {coupons[k].code : k \in 1..Len(coupons)}

\* the filter without its test for an empty validUntil
NotExpiredNoEmptyTest(coupon, t) == Geq(DateTime(coupon.validUntil), Num(t))

\* the callback of loadedCoupons.filter
NotExpired(coupon, t) ==
  IF coupon.validUntil = "" THEN TRUE
  ELSE Geq(DateTime(coupon.validUntil), Num(t))

FilterExpired(coupons, t) == SelectSeq(coupons, LAMBDA c : NotExpired(c, t))

\* the try block that loads public/coupons.json: when readFileSync throws
\* (readOk FALSE) or JSON.parse throws, the catch leaves existingCoupons and
\* existingCodes empty
LoadExisting(file, readOk, t) ==
  IF file.exists /\ readOk /\ file.json
  THEN [loaded |-> file.data,
        coupons |-> FilterExpired(file.data, t),
        known |-> CodesOf(FilterExpired(file.data, t))]
  ELSE [loaded |-> <<>>, coupons |-> <<>>, known |-> {}]

\* the candidate list left as it is
FilterKnownOff(cs, known) == cs

\* codes.filter(code => !existingCodes.has(code))
FilterKnown(cs, known) == SelectSeq(cs, LAMBDA c : c \notin known)

-----------------------------------------------------------------------------
(* The remote site *)

\* set-cookie values a probe response can carry ("" is no header)
SetCookies == {"", "sid=A"}

\* response bodies of the validity endpoint
ProbeBodies == {"", "<html>", "null", "{success:false}", "{success:true}",
                "{success:true,data:{type_id:7}}"}

\* a probe ends in a network failure (fetch rejects) or in a response
ProbeResponses ==
  {[rejected |-> TRUE, ok |-> FALSE, setCookie |-> "", body |-> ""]}
  \cup {[rejected |-> FALSE, ok |-> FALSE, setCookie |-> c, body |-> ""] :
          c \in SetCookies}
  \cup {[rejected |-> FALSE, ok |-> TRUE, setCookie |-> c, body |-> b] :
          c \in SetCookies, b \in ProbeBodies}

\* JSON.parse(text) of a probe body: a value, or a SyntaxError
JsonNull == [isNull |-> TRUE, success |-> FALSE, type_id |-> ""]
JsonObj(success, tid) == [isNull |-> FALSE, success |-> success, type_id |-> tid]
JsonThrows(text) == text \in {"", "<html>"}
JsonParse(text) ==
  CASE text = "null" -> JsonNull
    [] text = "{success:false}" -> JsonObj(FALSE, "")
    [] text = "{success:true}" -> JsonObj(TRUE, "")
    [] text = "{success:true,data:{type_id:7}}" -> JsonObj(TRUE, "7")
    [] OTHER -> JsonNull

\* the Cookie header of a request: absent, or a value (which can be empty)
NoCookieHeader == "(no Cookie header)"

\* the headers of the probe: Content-Type, User-Agent, Origin, Referer,
\* X-Requested-With and Accept
ProbeCookieHeader(cookie) == NoCookieHeader

\* the headers of the detail fetch: User-Agent, Referer and Cookie
DetailCookieHeader(cookie) == cookie

\* checkCouponValidity reading set-cookie only after the status test
checkCouponValidityCookieWhenOk(resp, cookie) ==
  IF resp.rejected
  THEN [thrown |-> FALSE, value |-> JsonNull, cookie |-> cookie]
  ELSE LET c == IF resp.ok /\ resp.setCookie # "" THEN resp.setCookie ELSE cookie
       IN IF ~resp.ok \/ resp.body = "" \/ JsonThrows(resp.body)
          THEN [thrown |-> FALSE, value |-> JsonNull, cookie |-> c]
          ELSE [thrown |-> FALSE, value |-> JsonParse(resp.body), cookie |-> c]

\* checkCouponValidity without its outer catch: a rejected fetch escapes
checkCouponValidityNoCatch(resp, cookie) ==
  IF resp.rejected
  THEN [thrown |-> TRUE, value |-> JsonNull, cookie |-> cookie]
  ELSE LET c == IF resp.setCookie # "" THEN resp.setCookie ELSE cookie
       IN IF ~resp.ok \/ resp.body = "" \/ JsonThrows(resp.body)
          THEN [thrown |-> FALSE, value |-> JsonNull, cookie |-> c]
          ELSE [thrown |-> FALSE, value |-> JsonParse(resp.body), cookie |-> c]

\* checkCouponValidity: the value it returns (JsonNull for null), the cookie it
\* leaves in globalCookie, and whether it throws
checkCouponValidity(resp, cookie) ==
  IF resp.rejected
  THEN [thrown |-> FALSE, value |-> JsonNull, cookie |-> cookie]
  ELSE LET c == IF resp.setCookie # "" THEN resp.setCookie ELSE cookie
       IN IF ~resp.ok THEN [thrown |-> FALSE, value |-> JsonNull, cookie |-> c]
          ELSE IF resp.body = "" THEN [thrown |-> FALSE, value |-> JsonNull, cookie |-> c]
          ELSE IF JsonThrows(resp.body)
               THEN [thrown |-> FALSE, value |-> JsonNull, cookie |-> c]
               ELSE [thrown |-> FALSE, value |-> JsonParse(resp.body), cookie |-> c]

\* a probe that did not get an answer from the endpoint: network failure,
\* non-success status, empty body or a body that is not JSON
ProbeFailed(resp) ==
  resp.rejected \/ ~resp.ok \/ resp.body = "" \/ JsonThrows(resp.body)

\* how a probe ended, as the remote site sees it
ProbeOutcome(resp) ==
  IF ProbeFailed(resp) THEN "failed"
  ELSE IF resp.body \in {"{success:true}", "{success:true,data:{type_id:7}}"}
       THEN "valid" ELSE "invalid"

\* the test without .success: any parsed object counts as found
ProbeSuccessLoose(value) == ~value.isNull

\* checkResult && checkResult.success
ProbeSuccess(value) == ~value.isNull /\ value.success

\* checkResult.data?.type_id || '1025'
DefaultTypeId == "1025"
TypeIdOf(value) == IF value.type_id # "" THEN value.type_id ELSE DefaultTypeId

\* a detail fetch ends in a network failure or in a document; the status of
\* the response is not looked at. An error page has none of the markers, and
\* a page of the site can lack both title markers; a page with a title has
\* an expiry line, with a date or with a string that is no date.
DetailResponses ==
  {[rejected |-> TRUE, ok |-> FALSE, title |-> "", expiry |-> NoDate]}
  \cup {[rejected |-> FALSE, ok |-> FALSE, title |-> "", expiry |-> NoDate]}
  \cup {[rejected |-> FALSE, ok |-> TRUE, title |-> "", expiry |-> NoDate]}
  \cup {[rejected |-> FALSE, ok |-> TRUE, title |-> "Deal", expiry |-> e] :
          e \in Expiries \ {NoDate}}

DetailFailed(resp) == resp.rejected \/ ~resp.ok

\* how a detail fetch ended, as the remote site sees it
DetailOutcome(resp) ==
  IF resp.rejected THEN "rejected"
  ELSE IF ~resp.ok THEN "error"
  ELSE IF resp.title = "" THEN "untitled" ELSE "doc"

\* the placeholder title: the code prefix and the code
Placeholder(code) == <<"coupon code", code>>

\* fetchCouponDetails returning null for a page without a title
fetchCouponDetailsTitledOnly(code, resp) ==
  [thrown |-> FALSE, isNull |-> resp.rejected \/ resp.title = "",
   record |-> [code |-> code, title |-> <<resp.title>>, validUntil |-> resp.expiry]]

\* fetchCouponDetails: null (no record) when the fetch throws, else a record;
\* nothing escapes its try block
fetchCouponDetails(code, resp) ==
  IF resp.rejected
  THEN [thrown |-> FALSE, isNull |-> TRUE,
        record |-> [code |-> code, title |-> <<>>, validUntil |-> ""]]
  ELSE [thrown |-> FALSE, isNull |-> FALSE,
        record |-> [code |-> code,
                    title |-> IF resp.title = "" THEN Placeholder(code)
                              ELSE <<resp.title>>,
                    validUntil |-> resp.expiry]]

-----------------------------------------------------------------------------
(* main *)

\* DEFAULT_RANGES, scaled to the code space of the model
DEFAULT_RANGES == << <<"0", "-", "1">> >>

\* command lines of the model: none, and a range overlapping a value
RunArgv ==
  { <<>>,
    << <<"1", "-", "1">>, <<"1">> >> }

NoMeta == [exists |-> FALSE, totalCoupons |-> 0, scannedRanges |-> <<>>,
           newCouponsFound |-> 0, existingCoupons |-> 0]

\* no extractor has been given a text, and the menu crawler has not started
NoResult == [defined |-> FALSE, value |-> [nan |-> TRUE, val |-> 0]]
NoExtract == inText = <<>> /\ outValue = NoResult
NoMenu == ct = 1 /\ allProducts = <<>> /\ menuLog = <<>> /\ menuFile = NoFile
\* no request function has been applied on its own; the front end is not mounted
NoCall == inResponse = <<>> /\ inPage = <<>>
NoApp == site = <<>> /\ app = <<>>

Init ==
  /\ argv = <<>>
  /\ args = <<>>
  /\ codes = <<>>
  /\ now = 1
  /\ loadedCoupons = <<>>
  /\ existingCoupons = <<>>
  /\ existingCodes = {}
  /\ codesToScan = <<>>
  /\ idx = 1
  /\ typeId = ""
  /\ validCoupons = <<>>
  /\ globalCookie = ""
  /\ pc = "idle"
  /\ pubDir \in BOOLEAN
  /\ pubFile = NoFile
  /\ cwdFile = NoFile
  /\ metaFile = NoMeta
  /\ run = 0
  /\ reqLog = <<>>
  /\ written = FALSE
  /\ sentCookie = NoCookieHeader
  /\ writeLog = <<>>
  /\ NoExtract
  /\ NoMenu
  /\ NoCall
  /\ NoApp

\* the loop going to the next code's probe without the pacing delay
AdvanceNoDelay ==
  /\ idx' = idx + 1
  /\ pc' = IF idx + 1 > Len(codesToScan) THEN "persist" ELSE "probing"

\* how the read of an existing public/coupons.json can end: readFileSync
\* returns the text and new Date() is taken at a time t not before the last
\* one, or readFileSync throws and the clock is not read; a file that does
\* not exist is not read
ReadOutcomes(file, last) ==
  IF file.exists
  THEN {[ok |-> TRUE, t |-> t] : t \in last..MaxNow} \cup {[ok |-> FALSE, t |-> last]}
  ELSE {[ok |-> TRUE, t |-> last]}

\* the loop goes to the next code, or main goes on to merge and persist
Advance ==
  /\ idx' = idx + 1
  /\ pc' = IF idx + 1 > Len(codesToScan) THEN "persist" ELSE "delay"

\* main up to the loop: the arguments, the candidate codes, the prior
\* collection and the codes to scan. A process starts with an empty cookie.
Start ==
  /\ pc \in {"idle", "done"}
  /\ run < MaxRuns
  /\ \E a \in RunArgv, read \in ReadOutcomes(pubFile, now) :
       LET as == IF a = <<>> THEN DEFAULT_RANGES ELSE a
           cs == parseArgsToCodes(as)
           t == read.t
           readOk == read.ok
           ld == LoadExisting(pubFile, readOk, t)
           scan == FilterKnown(cs, ld.known)
       IN /\ argv' = a
          /\ args' = as
          /\ codes' = cs
          /\ now' = IF pubFile.exists /\ readOk THEN t ELSE now
          /\ loadedCoupons' = ld.loaded
          /\ existingCoupons' = ld.coupons
          /\ existingCodes' = ld.known
          /\ codesToScan' = scan
          /\ pc' = IF scan = <<>> THEN "persist" ELSE "delay"
  /\ idx' = 1
  /\ typeId' = ""
  /\ validCoupons' = <<>>
  /\ globalCookie' = ""
  /\ run' = run + 1
  /\ reqLog' = <<>>
  /\ written' = FALSE
  /\ sentCookie' = NoCookieHeader
  /\ writeLog' = <<>>
  /\ UNCHANGED <<pubDir, pubFile, cwdFile, metaFile, extractVars, menuVars, callVars, appVars>>

\* a request as it is issued, and the log entry closed when it ends
Request(kind, code) == [kind |-> kind, code |-> code, result |-> "pending"]
Close(log, result) == [log EXCEPT ![Len(log)].result = result]

\* await delay(250) ends and checkCouponValidity issues its request
Delay ==
  /\ pc = "delay"
  /\ reqLog' = Append(reqLog, Request("probe", codesToScan[idx]))
  /\ sentCookie' = ProbeCookieHeader(globalCookie)
  /\ pc' = "probing"
  /\ UNCHANGED <<argv, args, codes, now, loadedCoupons, existingCoupons,
                 existingCodes, codesToScan, idx, typeId, validCoupons,
                 globalCookie, pubDir, pubFile, cwdFile, metaFile, run, written,
                 writeLog, extractVars, menuVars, callVars, appVars>>

\* the probe ends: checkCouponValidity returns, and on success main issues
\* the detail fetch
Probe ==
  /\ pc = "probing"
  /\ \E resp \in ProbeResponses :
       LET code == codesToScan[idx]
           res == checkCouponValidity(resp, globalCookie)
           log == Close(reqLog, ProbeOutcome(resp))
       IN /\ globalCookie' = res.cookie
          /\ IF res.thrown
             THEN /\ pc' = "aborted"
                  /\ reqLog' = log
                  /\ sentCookie' = NoCookieHeader
                  /\ UNCHANGED <<idx, typeId>>
             ELSE IF ProbeSuccess(res.value)
             THEN /\ typeId' = TypeIdOf(res.value)
                  /\ reqLog' = Append(log, Request("detail", code))
                  /\ sentCookie' = DetailCookieHeader(res.cookie)
                  /\ pc' = "fetching"
                  /\ UNCHANGED idx
             ELSE /\ Advance
                  /\ reqLog' = log
                  /\ sentCookie' = NoCookieHeader
                  /\ UNCHANGED typeId
  /\ UNCHANGED <<argv, args, codes, now, loadedCoupons, existingCoupons,
                 existingCodes, codesToScan, validCoupons, pubDir, pubFile,
                 cwdFile, metaFile, run, written, writeLog, extractVars,
                 menuVars, callVars, appVars>>

\* the detail fetch ends: fetchCouponDetails returns and main keeps the record
Detail ==
  /\ pc = "fetching"
  /\ \E resp \in DetailResponses :
       LET code == codesToScan[idx]
           details == fetchCouponDetails(code, resp)
       IN /\ validCoupons' = IF details.thrown \/ details.isNull THEN validCoupons
                             ELSE Append(validCoupons, details.record)
          /\ reqLog' = Close(reqLog, DetailOutcome(resp))
          /\ IF details.thrown
             THEN pc' = "aborted" /\ UNCHANGED idx
             ELSE Advance
  /\ typeId' = ""
  /\ sentCookie' = NoCookieHeader
  /\ UNCHANGED <<argv, args, codes, now, loadedCoupons, existingCoupons,
                 existingCodes, codesToScan, globalCookie, pubDir, pubFile,
                 cwdFile, metaFile, run, written, writeLog, extractVars,
                 menuVars, callVars, appVars>>

\* the merge with the new records first
MergeNewFirst(existing, found) == found \o existing

\* [...existingCoupons, ...validCoupons]
Merge(existing, found) == existing \o found

\* the metadata object main builds
MetadataTotalNew(as, existing, found, all) ==
  [exists |-> TRUE,
   totalCoupons |-> Len(found),
   scannedRanges |-> as,
   newCouponsFound |-> Len(found),
   existingCoupons |-> Len(existing)]

\* const metadata = { lastUpdated, totalCoupons: allCoupons.length,
\* scannedRanges: args, newCouponsFound: validCoupons.length,
\* existingCoupons: existingCoupons.length }
Metadata(as, existing, found, all) ==
  [exists |-> TRUE,
   totalCoupons |-> Len(all),
   scannedRanges |-> as,
   newCouponsFound |-> Len(found),
   existingCoupons |-> Len(existing)]

\* the write of the collection without its catch: a failure escapes
SaveCollectionNoCatch(diskOk) == [thrown |-> ~diskOk, saved |-> diskOk]

\* try { fs.writeFileSync(savePath, ...) } catch (error) { console.error }
SaveCollection(diskOk) == [thrown |-> FALSE, saved |-> diskOk]

\* try { fs.writeFileSync(metadataPath, ...) } catch (error) { console.error }
SaveMetadata(diskOk) == [thrown |-> FALSE, saved |-> diskOk]

WriteAttempt(file, ok) == [file |-> file, ok |-> ok]

\* the two writes at the end of main; each can fail on its own. main returns
\* and the process ends: its session token is gone.
Persist ==
  /\ pc = "persist"
  /\ \E dataOk \in BOOLEAN, metaOk \in BOOLEAN :
       LET allCoupons == Merge(existingCoupons, validCoupons)
           metadata == Metadata(args, existingCoupons, validCoupons, allCoupons)
           w1 == SaveCollection(dataOk)
           w2 == SaveMetadata(metaOk)
       IN /\ pubFile' = IF w1.saved /\ pubDir THEN JsonFile(allCoupons) ELSE pubFile
          /\ cwdFile' = IF w1.saved /\ ~pubDir THEN JsonFile(allCoupons) ELSE cwdFile
          /\ written' = w1.saved
          /\ IF w1.thrown
             THEN /\ writeLog' = <<WriteAttempt("coupons", FALSE)>>
                  /\ pc' = "aborted"
                  /\ UNCHANGED metaFile
             ELSE /\ writeLog' = <<WriteAttempt("coupons", w1.saved),
                                   WriteAttempt("metadata", w2.saved)>>
                  /\ metaFile' = IF w2.saved THEN metadata ELSE metaFile
                  /\ pc' = IF w2.thrown THEN "aborted" ELSE "done"
  /\ globalCookie' = ""
  /\ UNCHANGED <<argv, args, codes, now, loadedCoupons, existingCoupons,
                 existingCodes, codesToScan, idx, typeId, validCoupons,
                 pubDir, run, reqLog, sentCookie, extractVars, menuVars, callVars, appVars>>

Next == Start \/ Delay \/ Probe \/ Detail \/ Persist

Spec == Init /\ [][Next]_vars

-----------------------------------------------------------------------------
(* parseArgsToCodes on its own: every command line of at most two tokens *)

Tokens == UNION {[1..n -> TokenChars] : n \in 0..MaxTokLen}

ArgLists ==
  {<<>>} \cup {<<t>> : t \in Tokens} \cup {<<t, u>> : t \in Tokens, u \in Tokens}

InitParse ==
  /\ argv \in ArgLists
  /\ args = <<>>
  /\ codes = <<>>
  /\ now = 1
  /\ loadedCoupons = <<>>
  /\ existingCoupons = <<>>
  /\ existingCodes = {}
  /\ codesToScan = <<>>
  /\ idx = 1
  /\ typeId = ""
  /\ validCoupons = <<>>
  /\ globalCookie = ""
  /\ pc = "parse"
  /\ pubDir = FALSE
  /\ pubFile = NoFile
  /\ cwdFile = NoFile
  /\ metaFile = NoMeta
  /\ run = 0
  /\ reqLog = <<>>
  /\ written = FALSE
  /\ sentCookie = NoCookieHeader
  /\ writeLog = <<>>
  /\ NoExtract
  /\ NoMenu
  /\ NoCall
  /\ NoApp

\* const codes = parseArgsToCodes(args)
ParseArgs ==
  /\ pc = "parse"
  /\ args' = argv
  /\ codes' = parseArgsToCodes(argv)
  /\ pc' = "parsed"
  /\ UNCHANGED <<argv, now, loadedCoupons, existingCoupons, existingCodes,
                 codesToScan, idx, typeId, validCoupons, globalCookie, pubDir,
                 pubFile, cwdFile, metaFile, run, reqLog, written, sentCookie,
                 writeLog, extractVars, menuVars, callVars, appVars>>

NextParse == ParseArgs

SpecParse == InitParse /\ [][NextParse]_vars

-----------------------------------------------------------------------------
(* The two request functions on their own: every retained token against    *)
(* every response. The detail fetch is given the same responses: whatever  *)
(* headers its response carries, fetchCouponDetails reads only the text.   *)

\* the token a request finds in globalCookie: none yet, or one that an
\* earlier response of the run has set
RetainedCookies == SetCookies \cup {"sid=0"}

\* what fetchCouponDetails leaves in globalCookie: it has no assignment to it
DetailCookie(resp, cookie) == cookie

InitRequest ==
  /\ argv = <<>>
  /\ args = <<>>
  /\ codes = <<>>
  /\ now = 1
  /\ loadedCoupons = <<>>
  /\ existingCoupons = <<>>
  /\ existingCodes = {}
  /\ codesToScan = <<>>
  /\ idx = 1
  /\ typeId = ""
  /\ validCoupons = <<>>
  /\ globalCookie \in RetainedCookies
  /\ pc = "request"
  /\ pubDir = FALSE
  /\ pubFile = NoFile
  /\ cwdFile = NoFile
  /\ metaFile = NoMeta
  /\ run = 0
  /\ reqLog = <<>>
  /\ written = FALSE
  /\ sentCookie = NoCookieHeader
  /\ writeLog = <<>>
  /\ NoExtract
  /\ NoMenu
  /\ inResponse \in ProbeResponses
  /\ inPage = <<>>
  /\ NoApp

\* const checkResult = await checkCouponValidity(code)
CheckCouponValidity ==
  /\ pc = "request"
  /\ globalCookie' = checkCouponValidity(inResponse, globalCookie).cookie
  /\ pc' = "checked"
  /\ UNCHANGED <<argv, args, codes, now, loadedCoupons, existingCoupons,
                 existingCodes, codesToScan, idx, typeId, validCoupons, pubDir,
                 pubFile, cwdFile, metaFile, run, reqLog, written, sentCookie,
                 writeLog, extractVars, menuVars, callVars, appVars>>

\* const details = await fetchCouponDetails(code, typeId)
FetchCouponDetails ==
  /\ pc = "request"
  /\ globalCookie' = DetailCookie(inResponse, globalCookie)
  /\ pc' = "fetched"
  /\ UNCHANGED <<argv, args, codes, now, loadedCoupons, existingCoupons,
                 existingCodes, codesToScan, idx, typeId, validCoupons, pubDir,
                 pubFile, cwdFile, metaFile, run, reqLog, written, sentCookie,
                 writeLog, extractVars, menuVars, callVars, appVars>>

NextRequest == CheckCouponValidity \/ FetchCouponDetails

SpecRequest == InitRequest /\ [][NextRequest]_vars

-----------------------------------------------------------------------------
(* Texts of the site                                                       *)
(*                                                                         *)
(* A text is a sequence of characters; a character outside ASCII is        *)
(* written as its reading:                                                 *)
(*   yuan 元  qi 起  han 含  yi 以  shang 上  xian 限  ding 定  ci 此       *)
(*   tao 套  can 餐  he 合  ji 計  cun 吋  bi 比  sa 薩  mai 買  song 送     *)
(*   xiao 小  dan 單  dian 點  da 大  ban 半  jia 價  zhe 折  zui 最         *)
(*   gao 高  zhi 值  orig 原  wai 外  dai 帶  fu 服  wu 務  stop 。          *)
(*   nl is the newline                                                     *)

\* s has the literal lit at position i
MatchAt(s, i, lit) ==
  i >= 1 /\ i + Len(lit) - 1 <= Len(s) /\ SubSeq(s, i, i + Len(lit) - 1) = lit

\* s.includes(lit), and a literal pattern's test
Contains(s, lit) == \E i \in 1..(Len(s) + 1) : MatchAt(s, i, lit)

\* the position after the longest run, from i, of characters that are
\* (member) or are not (~member) in set: a greedy character class
RECURSIVE RunEnd(_, _, _, _)
RunEnd(s, i, set, member) ==
  IF i <= Len(s) /\ ((s[i] \in set) = member)
  THEN RunEnd(s, i + 1, set, member)
  ELSE i

\* the position after the optional characters opts, each taken when present
RECURSIVE SkipOpts(_, _, _)
SkipOpts(s, i, opts) ==
  IF opts = <<>> THEN i
  ELSE SkipOpts(s, IF MatchAt(s, i, <<Head(opts)>>) THEN i + 1 ELSE i, Tail(opts))

Smallest(I) == CHOOSE i \in I : \A j \in I : i <= j
Largest(I) == CHOOSE i \in I : \A j \in I : i >= j

Digits == {"0", "1", "2", "3", "4", "5", "6", "7", "8", "9"}
DigitsAndCommas == Digits \cup {","}
WhiteSpace == {" ", "nl"}

\* a pattern with one capture group:
\*   head \s* (?:optLead)? lead (group+) opt? ... tail
\* where \s* is there when gap is TRUE
Pattern(head, gap, optLead, lead, group, opts, tail) ==
  [head |-> head, gap |-> gap, optLead |-> optLead, lead |-> lead,
   group |-> group, opts |-> opts, tail |-> tail]

\* the match of pattern p that starts at position i of s, and its group
PatternAt(p, s, i) ==
  LET a == i + Len(p.head)
      b == IF p.gap THEN RunEnd(s, a, WhiteSpace, TRUE) ELSE a
      c == IF p.optLead # <<>> /\ MatchAt(s, b, p.optLead)
           THEN b + Len(p.optLead) ELSE b
      d == c + Len(p.lead)
      e == RunEnd(s, d, p.group, TRUE)
      f == SkipOpts(s, e, p.opts)
  IN [ok |-> /\ MatchAt(s, i, p.head)
             /\ MatchAt(s, c, p.lead)
             /\ e > d
             /\ MatchAt(s, f, p.tail),
      group |-> IF e > d /\ e - 1 <= Len(s) THEN SubSeq(s, d, e - 1) ELSE <<>>]

\* s.match(p): the leftmost match
PatternMatches(p, s) == \E i \in 1..Len(s) : PatternAt(p, s, i).ok
PatternGroup(p, s) ==
  PatternAt(p, s, Smallest({i \in 1..Len(s) : PatternAt(p, s, i).ok})).group

\* for (const pattern of patterns): the group of the first pattern of the
\* list that matches
RECURSIVE AnyMatches(_, _)
AnyMatches(ps, s) ==
  ps # <<>> /\ (PatternMatches(Head(ps), s) \/ AnyMatches(Tail(ps), s))

RECURSIVE FirstGroup(_, _)
FirstGroup(ps, s) ==
  IF PatternMatches(Head(ps), s) THEN PatternGroup(Head(ps), s)
  ELSE FirstGroup(Tail(ps), s)

\* parseInt(g, 10) of a group of digits, and of a group of digits and commas
\* after g.replace(/,/g, ''): NaN when no digit is left
ParseInt(g) ==
  LET e == RunEnd(g, 1, Digits, TRUE)
  IN IF e = 1 THEN NaN ELSE Num(DecValue(SubSeq(g, 1, e - 1)))

RemoveCommas(g) == SelectSeq(g, LAMBDA ch : ch # ",")

\* what an extractor returns: undefined, or a value
Returned(v) == [defined |-> TRUE, value |-> v]

-----------------------------------------------------------------------------
(* The price extractors *)

NTDollar == <<"N", "T", "$">>
Dollar == <<"$">>
AndAbove == <<"(", "han", ")", "yi", "shang">>
Limited == <<"xian", "ding">>
ComboTotal == <<"ci", "tao", "can", "he", "ji">>
MaxValueMark == <<"zui", "gao", "jia", "zhi">>
OriginalMark == <<"orig", "jia">>
NineInch == <<"9", "cun">>
Pizza == <<"bi", "sa">>
SmallPizza == <<"xiao", "bi", "sa">>
LargePizza == <<"da", "bi", "sa">>
BuyOneGetOne == <<"mai", "1", "song", "1">>
BuySmallGetSmall == <<"mai", "xiao", "song", "xiao">>
SingleOrder == <<"dan", "dian">>
HalfPrice == <<"ban", "jia">>

\* const patterns of extractMaxValuePrice
maxValuePatterns ==
  << Pattern(MaxValueMark, FALSE, <<"N", "T">>, Dollar, DigitsAndCommas, <<>>, <<>>),
     Pattern(<<"(">> \o MaxValueMark, FALSE, <<"N", "T">>, Dollar, DigitsAndCommas,
             <<"yuan">>, <<")">>) >>

\* extractMaxValuePrice: parseInt(match[1].replace(/,/g, ''), 10)
extractMaxValuePrice(s) ==
  IF AnyMatches(maxValuePatterns, s)
  THEN Returned(ParseInt(RemoveCommas(FirstGroup(maxValuePatterns, s))))
  ELSE NoResult

\* html.match(/原價(?:NT)?\$([\d,]+)/i) of fetchCouponDetails; originalPrice
\* stays 0 without a match
originalPricePattern ==
  Pattern(OriginalMark, FALSE, <<"N", "T">>, Dollar, DigitsAndCommas, <<>>, <<>>)

extractOriginalPrice(s) ==
  IF PatternMatches(originalPricePattern, s)
  THEN Returned(ParseInt(RemoveCommas(PatternGroup(originalPricePattern, s))))
  ELSE Returned(Num(0))

\* const minPricePatterns
minPricePatterns ==
  << Pattern(<<>>, FALSE, <<>>, NTDollar, Digits, <<"yuan", "qi">>, AndAbove),
     Pattern(Limited, FALSE, <<>>, NTDollar, Digits, <<"yuan", "qi">>, AndAbove),
     Pattern(<<>>, FALSE, <<>>, NTDollar, Digits, <<>>, AndAbove),
     Pattern(<<>>, FALSE, <<>>, Dollar, Digits, <<"yuan", "qi">>, AndAbove),
     Pattern(Limited, FALSE, <<>>, Dollar, Digits, <<"yuan", "qi">>, AndAbove) >>

\* const totalPricePattern
totalPricePattern ==
  Pattern(ComboTotal, FALSE, <<"N", "T">>, Dollar, Digits, <<>>, <<>>)

\* const startingPricePatterns
startingPricePatterns ==
  << Pattern(<<"=">>, TRUE, <<>>, NTDollar, Digits, <<"yuan">>, <<"qi">>),
     Pattern(<<"=">>, TRUE, <<>>, Dollar, Digits, <<"yuan">>, <<"qi">>),
     Pattern(<<"=">>, FALSE, <<>>, NTDollar, Digits, <<"yuan">>, <<"qi">>),
     Pattern(<<"=">>, FALSE, <<>>, Dollar, Digits, <<>>, <<"qi">>) >>

\* no full stop in s from position i to position j
NoStop(s, i, j) == \A k \in i..j : s[k] # "stop"

\* /a[^stop]*c/.test(s)
Chain2(s, a, c) ==
  \E i \in 1..Len(s) :
    /\ MatchAt(s, i, a)
    /\ \E k \in (i + Len(a))..Len(s) :
         MatchAt(s, k, c) /\ NoStop(s, i, k - 1)

\* /a[^stop]*b[^stop]*c/.test(s)
Chain3(s, a, b, c) ==
  \E i \in 1..Len(s) :
    /\ MatchAt(s, i, a)
    /\ \E j \in (i + Len(a))..Len(s) :
         /\ MatchAt(s, j, b)
         /\ \E k \in (j + Len(b))..Len(s) :
              MatchAt(s, k, c) /\ NoStop(s, i, k - 1)

\* /a[^stop]*b[^stop]*?(\d)zhe/ has a match in s that starts at i, with b
\* at j and the digit at k
DiscountAt(s, a, b, i, j, k) ==
  /\ MatchAt(s, i, a)
  /\ j >= i + Len(a)
  /\ MatchAt(s, j, b)
  /\ k >= j + Len(b)
  /\ k <= Len(s)
  /\ s[k] \in Digits
  /\ MatchAt(s, k + 1, <<"zhe">>)
  /\ NoStop(s, i, k)

DiscountMatches(s, a, b) ==
  \E i \in 1..Len(s) :
    /\ MatchAt(s, i, a)
    /\ \E j \in (i + Len(a))..Len(s) :
         /\ MatchAt(s, j, b)
         /\ \E k \in (j + Len(b))..Len(s) : DiscountAt(s, a, b, i, j, k)

\* the digit of s.match(/a[^stop]*b[^stop]*?(\d)zhe/): leftmost start, then
\* the greedy class takes the last b, then the lazy class the first digit
DiscountDigit(s, a, b) ==
  LET L == 1..Len(s)
      i == Smallest({x \in L : MatchAt(s, x, a) /\
                       \E y \in L : MatchAt(s, y, b) /\
                         \E z \in L : DiscountAt(s, a, b, x, y, z)})
      j == Largest({y \in L : MatchAt(s, y, b) /\
                      \E z \in L : DiscountAt(s, a, b, i, y, z)})
      k == Smallest({z \in L : DiscountAt(s, a, b, i, j, z)})
  IN DigitValue(s[k])

\* the 9-inch / small pizza price the fallbacks return
SmallPizzaPrice == 320

\* const minLargePizzaPrice
minLargePizzaPrice == 565

\* Math.round(n * 0.5) and Math.round(n * 0.1) for an integer n >= 0
RoundHalf(n) == (n + 1) \div 2
RoundTenth(n) == (n + 5) \div 10

\* the rules of extractMinPurchasePrice, in the order of the code: does rule
\* k match, and what it returns
RuleMatches(k, s) ==
  CASE k = 1 -> AnyMatches(minPricePatterns, s)
    [] k = 2 -> PatternMatches(totalPricePattern, s)
    [] k = 3 -> AnyMatches(startingPricePatterns, s)
    [] k = 4 -> Chain3(s, NineInch, Pizza, BuyOneGetOne)
                  \/ Chain2(s, SmallPizza, BuyOneGetOne)
    [] k = 5 -> Contains(s, BuySmallGetSmall)
    [] k = 6 -> Chain3(s, SingleOrder, LargePizza, HalfPrice)
    [] k = 7 -> DiscountMatches(s, SingleOrder, LargePizza)

RuleValue(k, s) ==
  CASE k = 1 -> ParseInt(FirstGroup(minPricePatterns, s))
    [] k = 2 -> ParseInt(PatternGroup(totalPricePattern, s))
    [] k = 3 -> ParseInt(FirstGroup(startingPricePatterns, s))
    [] k = 4 -> Num(SmallPizzaPrice)
    [] k = 5 -> Num(SmallPizzaPrice)
    [] k = 6 -> Num(RoundHalf(minLargePizzaPrice))
    [] k = 7 -> Num(RoundTenth(minLargePizzaPrice
                                 * DiscountDigit(s, SingleOrder, LargePizza)))

\* the cascade with the buy-one-get-one fallback tested first
extractMinPurchasePriceFallbackFirst(s) ==
  IF RuleMatches(4, s) THEN Returned(RuleValue(4, s))
  ELSE IF RuleMatches(1, s) THEN Returned(RuleValue(1, s))
  ELSE IF RuleMatches(2, s) THEN Returned(RuleValue(2, s))
  ELSE IF RuleMatches(3, s) THEN Returned(RuleValue(3, s))
  ELSE NoResult

\* extractMinPurchasePrice: the early returns, in order
extractMinPurchasePrice(s) ==
  IF RuleMatches(1, s) THEN Returned(RuleValue(1, s))
  ELSE IF RuleMatches(2, s) THEN Returned(RuleValue(2, s))
  ELSE IF RuleMatches(3, s) THEN Returned(RuleValue(3, s))
  ELSE IF RuleMatches(4, s) THEN Returned(RuleValue(4, s))
  ELSE IF RuleMatches(5, s) THEN Returned(RuleValue(5, s))
  ELSE IF RuleMatches(6, s) THEN Returned(RuleValue(6, s))
  ELSE IF RuleMatches(7, s) THEN Returned(RuleValue(7, s))
  ELSE NoResult

-----------------------------------------------------------------------------
(* The price extractors on their own: every text of a few phrases *)

\* number of phrases in a text
MaxPhrases == 2

\* the texts made of at most n of the phrases
RECURSIVE TextsOf(_, _)
TextsOf(phrases, n) ==
  IF n = 0 THEN {<<>>}
  ELSE LET T == TextsOf(phrases, n - 1)
       IN T \cup {t \o p : t \in T, p \in phrases}

\* an amount as the site writes it
Plain460 == <<"4", "6", "0">>
Grouped2098 == <<"2", ",", "0", "9", "8">>

AtLeastPhrase(amount) == NTDollar \o amount \o <<"yuan">> \o AndAbove
TotalPhrase(amount) == ComboTotal \o NTDollar \o amount
MaxValuePhrase(amount) == MaxValueMark \o NTDollar \o amount
OriginalPhrase(amount) == OriginalMark \o Dollar \o amount
StartingPhrase == <<"=">> \o NTDollar \o <<"8", "9", "yuan", "qi">>

PricePhrases ==
  { AtLeastPhrase(Plain460), AtLeastPhrase(Grouped2098),
    TotalPhrase(<<"2", "9", "8">>), TotalPhrase(Grouped2098),
    MaxValuePhrase(Grouped2098), OriginalPhrase(Grouped2098),
    StartingPhrase,
    NineInch \o Pizza, SmallPizza \o BuyOneGetOne, BuyOneGetOne,
    BuySmallGetSmall,
    SingleOrder \o LargePizza, HalfPrice, <<"7", "zhe">>,
    <<"stop">>, <<"x">> }

PriceTexts == TextsOf(PricePhrases, MaxPhrases)

\* the incremental crawler and the menu crawler are not running
crawlerVars == <<argv, args, codes, now, loadedCoupons, existingCoupons,
                 existingCodes, codesToScan, idx, typeId, validCoupons,
                 globalCookie, pubDir, pubFile, cwdFile, metaFile, run, reqLog,
                 written, sentCookie, writeLog>>

NoCrawler ==
  /\ argv = <<>>
  /\ args = <<>>
  /\ codes = <<>>
  /\ now = 1
  /\ loadedCoupons = <<>>
  /\ existingCoupons = <<>>
  /\ existingCodes = {}
  /\ codesToScan = <<>>
  /\ idx = 1
  /\ typeId = ""
  /\ validCoupons = <<>>
  /\ globalCookie = ""
  /\ pubDir = FALSE
  /\ pubFile = NoFile
  /\ cwdFile = NoFile
  /\ metaFile = NoMeta
  /\ run = 0
  /\ reqLog = <<>>
  /\ written = FALSE
  /\ sentCookie = NoCookieHeader
  /\ writeLog = <<>>

InitPrice ==
  /\ NoCrawler
  /\ NoMenu
  /\ NoCall
  /\ NoApp
  /\ pc = "text"
  /\ inText \in PriceTexts
  /\ outValue = NoResult

\* const minPurchasePrice = extractMinPurchasePrice(allText)
ExtractMinPurchasePrice ==
  /\ pc = "text"
  /\ outValue' = extractMinPurchasePrice(inText)
  /\ pc' = "minPurchasePrice"
  /\ UNCHANGED <<crawlerVars, menuVars, callVars, appVars, inText>>

\* const maxValuePrice = extractMaxValuePrice(allText)
ExtractMaxValuePrice ==
  /\ pc = "text"
  /\ outValue' = extractMaxValuePrice(inText)
  /\ pc' = "maxValuePrice"
  /\ UNCHANGED <<crawlerVars, menuVars, callVars, appVars, inText>>

\* the original price fetchCouponDetails reads from the page
ExtractOriginalPrice ==
  /\ pc = "text"
  /\ outValue' = extractOriginalPrice(inText)
  /\ pc' = "originalPrice"
  /\ UNCHANGED <<crawlerVars, menuVars, callVars, appVars, inText>>

NextPrice == ExtractMinPurchasePrice \/ ExtractMaxValuePrice \/ ExtractOriginalPrice

SpecPrice == InitPrice /\ [][NextPrice]_vars

-----------------------------------------------------------------------------
(* The delivery type extractor *)

Delivery == <<"wai", "song">>
Takeout == <<"wai", "dai">>
DeliveryOnlyLabel == Delivery \o Limited
TakeoutOnlyLabel == Takeout \o Limited
OnlyDelivery == <<"xian">> \o Delivery
OnlyTakeout == <<"xian">> \o Takeout
NoteMark == <<"*">> \o Delivery \o <<"fu", "wu">>
NoteStops == {"stop", "nl", "*"}

\* text.replace(/\*wai-song-fu-wu[^stop nl *]*/g, ''): every note, from its
\* asterisk to the next full stop, newline or asterisk, is taken out
RECURSIVE StripNotes(_)
StripNotes(s) ==
  IF ~Contains(s, NoteMark) THEN s
  ELSE LET i == Smallest({x \in 1..Len(s) : MatchAt(s, x, NoteMark)})
           e == RunEnd(s, i + Len(NoteMark), NoteStops, FALSE)
       IN SubSeq(s, 1, i - 1) \o StripNotes(SubSeq(s, e, Len(s)))

\* cleanedText.toLowerCase()
LowerChar(ch) ==
  CASE ch = "N" -> "n" [] ch = "T" -> "t" [] ch = "X" -> "x" [] OTHER -> ch
ToLowerCase(s) == [k \in 1..Len(s) |-> LowerChar(s[k])]

\* what extractDeliveryType returns without a match
NoType == [defined |-> FALSE, value |-> ""]

\* the cascade with the single mentions tested before the pair
extractDeliveryTypeSingleFirst(s) ==
  LET lowerText == ToLowerCase(StripNotes(s))
  IN IF Contains(s, DeliveryOnlyLabel) THEN Returned("delivery")
     ELSE IF Contains(s, TakeoutOnlyLabel) THEN Returned("takeout")
     ELSE IF Contains(lowerText, Delivery) THEN Returned("delivery")
     ELSE IF Contains(lowerText, Takeout) THEN Returned("takeout")
     ELSE NoType

\* extractDeliveryType
extractDeliveryType(s) ==
  LET lowerText == ToLowerCase(StripNotes(s))
  IN IF Contains(s, DeliveryOnlyLabel) THEN Returned("delivery")
     ELSE IF Contains(s, TakeoutOnlyLabel) THEN Returned("takeout")
     ELSE IF Contains(lowerText, OnlyDelivery) /\ ~Contains(lowerText, Takeout)
          THEN Returned("delivery")
     ELSE IF Contains(lowerText, OnlyTakeout) /\ ~Contains(lowerText, Delivery)
          THEN Returned("takeout")
     ELSE IF \/ Contains(lowerText, Delivery \o <<"/">> \o Takeout)
             \/ Contains(lowerText, Takeout \o <<"/">> \o Delivery)
             \/ (Contains(lowerText, Delivery) /\ Contains(lowerText, Takeout))
          THEN Returned("both")
     ELSE IF Contains(lowerText, Delivery) THEN Returned("delivery")
     ELSE IF Contains(lowerText, Takeout) THEN Returned("takeout")
     ELSE NoType

\* the delivery-fee disclaimer of the site, cut to its first and last clause:
\* wai-song-fu-wu-wei-xian-qu-fu-wu , ... wai-song-fu-wu ... stop (wei, qu
\* are the readings of the two characters between fu-wu and xian, fu-wu);
\* some pages have it with a leading asterisk and some without
Disclaimer ==
  Delivery \o <<"fu", "wu", "wei", "xian", "qu", "fu", "wu", ",">>
    \o Delivery \o <<"fu", "wu", "stop">>

DeliveryPhrases ==
  { Delivery, Takeout, DeliveryOnlyLabel, OnlyDelivery, <<"xian">>, Limited,
    NoteMark, <<"/">>, <<"stop">>, <<"X">>, Disclaimer, <<"*">> \o Disclaimer }

DeliveryTexts == TextsOf(DeliveryPhrases, MaxPhrases)

InitDelivery ==
  /\ NoCrawler
  /\ NoMenu
  /\ NoCall
  /\ NoApp
  /\ pc = "text"
  /\ inText \in DeliveryTexts
  /\ outValue = NoType

\* const deliveryType = extractDeliveryType(allText)
ExtractDeliveryType ==
  /\ pc = "text"
  /\ outValue' = extractDeliveryType(inText)
  /\ pc' = "deliveryType"
  /\ UNCHANGED <<crawlerVars, menuVars, callVars, appVars, inText>>

NextDelivery == ExtractDeliveryType

SpecDelivery == InitDelivery /\ [][NextDelivery]_vars

-----------------------------------------------------------------------------
(* The title and the prices fetchCouponDetails reads from a page, in the    *)
(* incremental crawler (src/unnamed/part_000) and in src/crawler.ts         *)

\* an element of the page that a pattern looks for: absent, or present with
\* the text the group captures
NoMarker == [found |-> FALSE, text |-> <<>>]
Marker(text) == [found |-> TRUE, text |-> text]

\* String.prototype.trim
TrimText(s) ==
  LET inked == {k \in 1..Len(s) : s[k] \notin WhiteSpace}
  IN IF inked = {} THEN <<>> ELSE SubSeq(s, Smallest(inked), Largest(inked))

\* title.replace(/&amp;/g, '&'); the entity is one character of the model
ReplaceAmp(s) == [k \in 1..Len(s) |-> IF s[k] = "&amp;" THEN "&" ELSE s[k]]

\* the text of the page that html.match searches, and [title, ...items].join(' ')
HtmlText(page) == page.h1.text \o page.prodName.text \o page.body
AllText(title, page) ==
  IF page.body = <<>> THEN title ELSE title \o <<" ">> \o page.body

\* the title before the placeholder test: the heading when the page has one,
\* else the product name when the page has one, else the initial value
MarkedTitle(page, initial) ==
  IF page.h1.found THEN TrimText(page.h1.text)
  ELSE IF page.prodName.found THEN TrimText(page.prodName.text)
  ELSE initial

\* let title = ''; ...; if (!title) title = placeholder; the record gets
\* title.replace(/&amp;/g, '&')
TitleOf(code, page) ==
  LET title == MarkedTitle(page, <<>>)
  IN IF title = <<>> THEN Placeholder(code) ELSE ReplaceAmp(title)

\* src/crawler.ts: let title = placeholder; a marker that is found replaces it
CrawlerTitleOf(code, page) ==
  IF page.h1.found \/ page.prodName.found
  THEN ReplaceAmp(MarkedTitle(page, <<>>))
  ELSE Placeholder(code)

\* let price = initial; the descPrice element replaces it when it is found
PriceOf(page, initial) ==
  IF page.descPrice.found THEN ParseInt(RemoveCommas(page.descPrice.text))
  ELSE Num(initial)

\* a value that JavaScript takes as true in a condition: a number other than
\* 0 and NaN
Truthy(v) == ~IsNaN(v) /\ v.val # 0

\* let originalPrice = 0; the marker; if (originalPrice === 0) the phrase of
\* the title and the items, when extractMaxValuePrice returns a truthy value
OriginalPriceOf(title, page) ==
  LET originalPrice == extractOriginalPrice(HtmlText(page)).value
  IN IF ~IsNaN(originalPrice) /\ originalPrice.val = 0
     THEN LET maxValuePrice == extractMaxValuePrice(AllText(title, page))
          IN IF maxValuePrice.defined /\ Truthy(maxValuePrice.value)
             THEN maxValuePrice.value ELSE originalPrice
     ELSE originalPrice

\* src/crawler.ts: let price = 999
CrawlerDefaultPrice == 999

\* Math.round(price * 1.5)
OneAndAHalf(price) ==
  IF IsNaN(price) THEN NaN ELSE Num((3 * price.val + 1) \div 2)

\* src/crawler.ts: let originalPrice = Math.round(price * 1.5); the marker
\* replaces it when it is found
CrawlerOriginalPriceOf(page) ==
  IF PatternMatches(originalPricePattern, HtmlText(page))
  THEN ParseInt(RemoveCommas(PatternGroup(originalPricePattern, HtmlText(page))))
  ELSE OneAndAHalf(PriceOf(page, CrawlerDefaultPrice))

\* the pages of the model: a heading and a product name that are absent,
\* blank or a text, a price element, and items with the two price phrases
PageHeadings == {NoMarker, Marker(<<" ">>), Marker(<<" ", "A", "&amp;", "B", " ">>)}
PageProductNames == {NoMarker, Marker(<<>>), Marker(<<"P", "i", "e">>)}
PagePrices == {NoMarker, Marker(<<"3", "0", "1">>)}
PagePhrases ==
  { OriginalPhrase(Grouped2098), OriginalPhrase(<<"0">>),
    MaxValuePhrase(Plain460), <<"X">> }
Pages ==
  [h1 : PageHeadings, prodName : PageProductNames, descPrice : PagePrices,
   body : TextsOf(PagePhrases, MaxPhrases)]

\* the code whose page is fetched
PageCode == <<"0", "0", "0", "0", "1">>

InitPage ==
  /\ NoCrawler
  /\ NoMenu
  /\ NoExtract
  /\ NoApp
  /\ pc = "page"
  /\ inResponse = <<>>
  /\ inPage \in Pages

\* fetchCouponDetails of the incremental crawler, from the page to the record
PageDetails ==
  /\ pc = "page"
  /\ outValue' = LET title == TitleOf(PageCode, inPage)
                 IN [title |-> title,
                     discountedPrice |-> PriceOf(inPage, 0),
                     originalPrice |-> OriginalPriceOf(title, inPage)]
  /\ pc' = "details"
  /\ UNCHANGED <<crawlerVars, menuVars, callVars, appVars, inText>>

\* fetchCouponDetails of src/crawler.ts, from the page to the record
CrawlerPageDetails ==
  /\ pc = "page"
  /\ outValue' = LET price == PriceOf(inPage, CrawlerDefaultPrice)
                 IN [title |-> CrawlerTitleOf(PageCode, inPage),
                     discountedPrice |-> IF ~IsNaN(price) /\ price.val > 0
                                         THEN price ELSE Num(CrawlerDefaultPrice),
                     originalPrice |-> CrawlerOriginalPriceOf(inPage)]
  /\ pc' = "crawlerDetails"
  /\ UNCHANGED <<crawlerVars, menuVars, callVars, appVars, inText>>

NextPage == PageDetails \/ CrawlerPageDetails

SpecPage == InitPage /\ [][NextPage]_vars

-----------------------------------------------------------------------------
(* The front end: the App component loading its static files, with the     *)
(* menu filter (src/unnamed/part_001, fetchData) and without it            *)
(* (src/unnamed/part_002, fetchCoupons and fetchMetadata)                  *)

\* how the fetch of a static file ends: the promise rejects (network
\* failure), a response that is not ok (the file is missing), an ok response
\* whose body is no JSON, an ok response with JSON
FileAnswers == {"rejected", "missing", "garbled", "json"}
Sites == [coupons : FileAnswers, menu : FileAnswers, metadata : FileAnswers]

\* the state of App after useState: nothing loaded, loading, no error
Mounted(variant) ==
  [variant |-> variant, coupons |-> FALSE, menuItems |-> FALSE,
   metadata |-> FALSE, loading |-> TRUE, error |-> FALSE]

\* the catch and the finally of fetchData and of fetchCoupons
Failed(a) == [a EXCEPT !.error = TRUE, !.loading = FALSE]
Settled(a) == [a EXCEPT !.loading = FALSE]

\* fetchData: Promise.all of the three fetches, the one of metadata.json
\* with a catch of its own; then the three bodies in turn, in one try
fetchData(s, a) ==
  IF s.coupons = "rejected" \/ s.menu = "rejected" THEN Failed(a)
  ELSE IF s.coupons # "json" THEN Failed(a)
  ELSE LET a1 == [a EXCEPT !.coupons = TRUE]
       IN IF s.menu = "garbled" THEN Failed(a1)
          ELSE LET a2 == IF s.menu = "json" THEN [a1 EXCEPT !.menuItems = TRUE]
                         ELSE a1
               IN IF s.metadata = "garbled" THEN Failed(a2)
                  ELSE IF s.metadata = "json"
                       THEN Settled([a2 EXCEPT !.metadata = TRUE])
                       ELSE Settled(a2)

\* fetchCoupons of the App without the menu filter
fetchCoupons(s, a) ==
  IF s.coupons = "json" THEN Settled([a EXCEPT !.coupons = TRUE])
  ELSE Failed(a)

\* fetchMetadata of the App without the menu filter: a failure is only logged
fetchMetadata(s, a) ==
  IF s.metadata = "json" THEN [a EXCEPT !.metadata = TRUE] ELSE a

\* what App renders: the spinner, the error box or the coupon list
View(a) ==
  IF a.loading THEN "spinner" ELSE IF a.error THEN "error" ELSE "list"

InitApp ==
  /\ NoCrawler
  /\ NoMenu
  /\ NoExtract
  /\ NoCall
  /\ pc = "mounted"
  /\ site \in Sites
  /\ app \in {Mounted("fetchData"), Mounted("fetchCoupons")}

\* the effect of the App with the menu filter, up to its finally
FetchData ==
  /\ pc = "mounted"
  /\ app.variant = "fetchData"
  /\ app' = fetchData(site, app)
  /\ pc' = "settled"
  /\ UNCHANGED <<crawlerVars, menuVars, extractVars, callVars, site>>

\* the two calls of the effect of the App without the menu filter; they run
\* side by side and end in either order
FetchCoupons ==
  /\ app.variant = "fetchCoupons"
  /\ pc \in {"mounted", "metadataDone"}
  /\ app' = fetchCoupons(site, app)
  /\ pc' = IF pc = "mounted" THEN "couponsDone" ELSE "settled"
  /\ UNCHANGED <<crawlerVars, menuVars, extractVars, callVars, site>>

FetchMetadata ==
  /\ app.variant = "fetchCoupons"
  /\ pc \in {"mounted", "couponsDone"}
  /\ app' = fetchMetadata(site, app)
  /\ pc' = IF pc = "mounted" THEN "metadataDone" ELSE "settled"
  /\ UNCHANGED <<crawlerVars, menuVars, extractVars, callVars, site>>

NextApp == FetchData \/ FetchCoupons \/ FetchMetadata

SpecApp == InitApp /\ [][NextApp]_vars

-----------------------------------------------------------------------------
(* The menu crawler (src/menu_crawler.ts) *)

\* for (let ct = 1; ct <= 8; ct++)
NumCategories == 8

\* an element of class promotion_list_item: its data-id-real and id
\* attributes ("" when the attribute is missing) and the text of its name
\* element
Item(realId, elementId, nameText) ==
  [realId |-> realId, elementId |-> elementId, nameText |-> nameText]

\* elementId.replace('itemss_p', '')
StripItemPrefix(elementId) ==
  CASE elementId = "itemss_p" -> ""
    [] elementId = "itemss_p326" -> "326"
    [] OTHER -> elementId

\* nameText.trim()
Trim(nameText) ==
  CASE nameText = "  " -> ""
    [] nameText = " Pizza " -> "Pizza"
    [] OTHER -> nameText

\* const id = realId || (elementId ? elementId.replace('itemss_p', '') : '')
ItemId(item) ==
  IF item.realId # "" THEN item.realId
  ELSE IF item.elementId # "" THEN StripItemPrefix(item.elementId)
  ELSE ""

\* the callback of items.each without its test of the name
ItemProductsNoNameTest(item, category) ==
  IF ItemId(item) = "" THEN <<>>
  ELSE << [id |-> ItemId(item), name |-> Trim(item.nameText),
           categoryId |-> category] >>

\* the callback of items.each: what one element adds to products
ItemProducts(item, category) ==
  IF ItemId(item) = "" THEN <<>>
  ELSE IF Trim(item.nameText) = "" THEN <<>>
  ELSE << [id |-> ItemId(item), name |-> Trim(item.nameText),
           categoryId |-> category] >>

RECURSIVE PageProducts(_, _)
PageProducts(items, category) ==
  IF items = <<>> THEN <<>>
  ELSE ItemProducts(Head(items), category) \o PageProducts(Tail(items), category)

\* pages of the site: one with an element without id, a product, an element
\* without name and a product that has only the id attribute; one with an
\* element whose id attribute is the bare prefix, and a product
FullPage ==
  << Item("", "", "Pasta"), Item("77", "itemss_p326", " Pizza "),
     Item("78", "", "  "), Item("", "itemss_p326", "Pasta") >>
ShortPage == << Item("", "itemss_p", "Pasta"), Item("79", "", "Pasta") >>

\* a category fetch ends in a network failure, in a non-success status (the
\* body is then not looked at) or in a page
MenuResponses ==
  { [rejected |-> TRUE, ok |-> FALSE, page |-> <<>>],
    [rejected |-> FALSE, ok |-> FALSE, page |-> FullPage],
    [rejected |-> FALSE, ok |-> TRUE, page |-> FullPage],
    [rejected |-> FALSE, ok |-> TRUE, page |-> ShortPage] }

\* fetchCategory without its test of response.ok
fetchCategoryNoStatusTest(category, resp) ==
  IF resp.rejected THEN <<>> ELSE PageProducts(resp.page, category)

\* fetchCategory: [] from the catch and for a non-success status
fetchCategory(category, resp) ==
  IF resp.rejected THEN <<>>
  ELSE IF ~resp.ok THEN <<>>
  ELSE PageProducts(resp.page, category)

\* a menu file left by an earlier run
OldMenu == << [id |-> "1", name |-> "Old", categoryId |-> 1] >>

InitMenu ==
  /\ argv = <<>>
  /\ args = <<>>
  /\ codes = <<>>
  /\ now = 1
  /\ loadedCoupons = <<>>
  /\ existingCoupons = <<>>
  /\ existingCodes = {}
  /\ codesToScan = <<>>
  /\ idx = 1
  /\ typeId = ""
  /\ validCoupons = <<>>
  /\ globalCookie = ""
  /\ pubDir \in BOOLEAN
  /\ pubFile = NoFile
  /\ cwdFile = NoFile
  /\ metaFile = NoMeta
  /\ run = 0
  /\ reqLog = <<>>
  /\ written = FALSE
  /\ sentCookie = NoCookieHeader
  /\ writeLog = <<>>
  /\ NoExtract
  /\ NoCall
  /\ NoApp
  /\ pc = "menu"
  /\ ct = 1
  /\ allProducts = <<>>
  /\ menuLog = <<>>
  /\ menuFile = IF pubDir THEN JsonFile(OldMenu) ELSE NoFile

\* one turn of the loop of main: fetchCategory(ct), the push, the delay
FetchCategory ==
  /\ pc = "menu"
  /\ ct <= NumCategories
  /\ \E resp \in MenuResponses :
       /\ allProducts' = allProducts \o fetchCategory(ct, resp)
       /\ menuLog' = Append(menuLog, [ct |-> ct, resp |-> resp])
  /\ ct' = ct + 1
  /\ pc' = IF ct + 1 > NumCategories THEN "menuWrite" ELSE "menu"
  /\ UNCHANGED <<argv, args, codes, now, loadedCoupons, existingCoupons,
                 existingCodes, codesToScan, idx, typeId, validCoupons,
                 globalCookie, pubDir, pubFile, cwdFile, metaFile, run, reqLog,
                 written, sentCookie, writeLog, extractVars, callVars, appVars,
                 menuFile>>

\* the end of main: the public directory is made when it is missing and
\* menu.json is written; a write that fails throws out of main
WriteMenu ==
  /\ pc = "menuWrite"
  /\ \E diskOk \in BOOLEAN :
       /\ pubDir' = (pubDir \/ diskOk)
       /\ menuFile' = IF diskOk THEN JsonFile(allProducts) ELSE menuFile
       /\ pc' = IF diskOk THEN "menuDone" ELSE "menuFailed"
  /\ UNCHANGED <<argv, args, codes, now, loadedCoupons, existingCoupons,
                 existingCodes, codesToScan, idx, typeId, validCoupons,
                 globalCookie, pubFile, cwdFile, metaFile, run, reqLog,
                 written, sentCookie, writeLog, extractVars, callVars, appVars, ct,
                 allProducts,
                 menuLog>>

NextMenu == FetchCategory \/ WriteMenu

SpecMenu == InitMenu /\ [][NextMenu]_vars

-----------------------------------------------------------------------------
(* What a token is meant to expand to *)

\* a bare integer: decimal digits only
IsIntegerToken(t) == IsDigits(t)

\* start-end: one hyphen, an integer on each side, start <= end
IsRangeToken(t) ==
  \E k \in 1..Len(t) :
    /\ t[k] = "-"
    /\ IsDigits(SubSeq(t, 1, k - 1))
    /\ IsDigits(SubSeq(t, k + 1, Len(t)))
    /\ DecValue(SubSeq(t, 1, k - 1)) <= DecValue(SubSeq(t, k + 1, Len(t)))

IsValidToken(t) == IsIntegerToken(t) \/ IsRangeToken(t)

\* the integers a token stands for, in order; none for a malformed token
TokenValues(t) ==
  IF IsIntegerToken(t) THEN <<DecValue(t)>>
  ELSE IF IsRangeToken(t)
  THEN LET k == CHOOSE j \in 1..Len(t) : t[j] = "-"
           a == DecValue(SubSeq(t, 1, k - 1))
           b == DecValue(SubSeq(t, k + 1, Len(t)))
       IN [j \in 1..(b - a + 1) |-> a + j - 1]
  ELSE <<>>

RECURSIVE ArgValues(_)
ArgValues(as) ==
  IF as = <<>> THEN <<>> ELSE TokenValues(Head(as)) \o ArgValues(Tail(as))

\* cs is the 5-digit zero-padded rendering of the integers vs, one for one
IsPaddedRendering(cs, vs) ==
  /\ Len(cs) = Len(vs)
  /\ \A k \in 1..Len(cs) :
       /\ Len(cs[k]) = CodeWidth
       /\ IsDigits(cs[k])
       /\ DecValue(cs[k]) = vs[k]

\* C6: for a command line of valid tokens, parseArgsToCodes returns the
\* expansions of the tokens concatenated in token order: b-a+1 ascending codes
\* for a range a-b, one code for an integer, each zero-padded to 5 digits,
\* repeated codes kept.
C6_Expansion ==
  (pc = "parsed" /\ \A k \in 1..Len(argv) : IsValidToken(argv[k]))
    => IsPaddedRendering(codes, ArgValues(argv))

\* a range overlapping a single value: the repeated code is kept
C6_Witness ==
  /\ pc = "parsed"
  /\ argv = << <<"0", "-", "1">>, <<"1">> >>
  /\ Len(codes) = 3
  /\ codes[2] = codes[3]

\* C7: a malformed token contributes no code, whatever the other tokens are:
\* the result is the expansion of the valid tokens alone.
C7_MalformedSkipped ==
  pc = "parsed" => IsPaddedRendering(codes, ArgValues(argv))

-----------------------------------------------------------------------------
(* Reading the state of a run *)

\* the collection file this run writes: public/coupons.json when the public
\* directory exists, else ./coupons.json
SavedFile == IF pubDir THEN pubFile ELSE cwdFile

Range(seq) == {seq[k] : k \in 1..Len(seq)}

Unique(coupons) ==
  \A j, k \in 1..Len(coupons) : coupons[j].code = coupons[k].code => j = k

ProbeEntries == SelectSeq(reqLog, LAMBDA e : e.kind = "probe")

\* codes whose probe was answered with success
ValidCodes == {e.code : e \in {x \in Range(reqLog) : x.kind = "probe" /\ x.result = "valid"}}

\* codes with a probe or a detail fetch that failed in this run
FailedCodes ==
  {e.code : e \in {x \in Range(reqLog) : x.result \in {"failed", "rejected", "error"}}}

\* the detail fetches that returned a document, in order
DocEntries ==
  SelectSeq(reqLog, LAMBDA e : e.kind = "detail"
                                /\ e.result \in {"error", "untitled", "doc"})

Finished == pc = "done" /\ written

-----------------------------------------------------------------------------
(* Claims *)

\* C1: after a run whose prior collection had unique codes, no two records of
\* the persisted collection have the same code, whatever the input tokens.
C1_UniqueCodes ==
  (Finished /\ Unique(loadedCoupons)) => Unique(SavedFile.data)

\* C2: no validity probe and no detail fetch is issued for the code of a
\* retained prior record: those codes are not in the list that is scanned.
C2_KnownNeverProbed ==
  /\ \A k \in 1..Len(codesToScan) : codesToScan[k] \notin CodesOf(existingCoupons)
  /\ \A k \in 1..Len(reqLog) : reqLog[k].code \notin CodesOf(existingCoupons)

\* a run that was given the code of a retained record and probed another code
C2_Witness ==
  /\ pc = "done"
  /\ \E c \in CodesOf(existingCoupons) : c \in Range(codes)
  /\ reqLog # <<>>

\* C3: of the loaded prior records, one whose validUntil is a date before the
\* run's current time is not retained, and one whose validUntil is empty is.
C3_ExpiryFilter ==
  run > 0 =>
    \A k \in 1..Len(loadedCoupons) :
      LET r == loadedCoupons[k]
          d == DateTime(r.validUntil)
      IN /\ (~IsNaN(d) /\ d.val < now) => r \notin Range(existingCoupons)
         /\ r.validUntil = "" => r \in Range(existingCoupons)

\* a load that drops a record dated before now and keeps an undated one
C3_Witness ==
  /\ run > 0
  /\ \E j, k \in 1..Len(loadedCoupons) :
       /\ loadedCoupons[j].validUntil = ADate
       /\ TicksPerDay < now
       /\ loadedCoupons[j] \notin Range(existingCoupons)
       /\ loadedCoupons[k].validUntil = ""
       /\ loadedCoupons[k] \in Range(existingCoupons)

\* C4: a loaded prior record whose validUntil is a non-empty string that is no
\* date is retained.
C4_UnparseableRetained ==
  run > 0 =>
    \A k \in 1..Len(loadedCoupons) :
      LET r == loadedCoupons[k]
      IN (r.validUntil # "" /\ IsNaN(DateTime(r.validUntil)))
           => r \in Range(existingCoupons)

C8_FailuresNotFatal ==
  /\ pc # "aborted"
  /\ pc \in {"delay", "probing", "fetching", "persist"} => ENABLED Next
  /\ \A k \in 1..Len(reqLog) :
       (reqLog[k].result = "failed" /\ k < Len(reqLog)) => reqLog[k + 1].kind = "probe"
  /\ pc \in {"persist", "done"} => Len(ProbeEntries) = Len(codesToScan)

\* a finished run whose first probe failed, with a failed detail fetch, more
\* than one probe, and both files written
C8_Witness ==
  /\ Finished
  /\ metaFile.exists
  /\ Len(ProbeEntries) > 1
  /\ reqLog[1].result = "failed"
  /\ \E e \in Range(reqLog) : e.result = "rejected"

\* the log is, candidate by candidate and in order, one probe of the candidate,
\* followed by at most one detail fetch of the same code, and then only when
\* the probe was answered with success
RECURSIVE OncePerCandidate(_, _)
OncePerCandidate(log, cands) ==
  IF log = <<>> THEN TRUE
  ELSE /\ cands # <<>>
       /\ log[1].kind = "probe"
       /\ log[1].code = Head(cands)
       /\ IF Len(log) > 1 /\ log[2].kind = "detail"
          THEN /\ log[1].result = "valid"
               /\ log[2].code = log[1].code
               /\ OncePerCandidate(SubSeq(log, 3, Len(log)), Tail(cands))
          ELSE OncePerCandidate(Tail(log), Tail(cands))

C10_FailedRetriedNextRun ==
  [][ /\ (pc = "persist" /\ pc' = "done" /\ written')
          => \A c \in FailedCodes : c \notin CodesOf(SavedFile'.data)
      /\ (pc = "done" /\ written /\ pc' # "done" /\ argv' = argv)
          => \A c \in FailedCodes : c \in Range(codesToScan')
    ]_vars

\* C11: once a probe response of the run has set a session token, every
\* request in flight later in the run, a validity probe or a detail fetch,
\* carries that token, the most recently captured one, in its Cookie header.
C11_TokenReplayed ==
  (pc \in {"probing", "fetching"} /\ globalCookie # "")
    => sentCookie = globalCookie

\* no record of the collection has a date that is over at time t
NoneExpiredAt(coupons, t) ==
  \A k \in 1..Len(coupons) :
    LET d == DateTime(coupons[k].validUntil)
    IN IsNaN(d) \/ d.val >= t

\* C12: a run that follows a finished run with the same tokens, none of the
\* persisted records being over its expiry date, scans none of the codes the
\* first run persisted and retains the whole collection the first run
\* persisted, so that with the same upstream answers it persists it again.
C12_Idempotent ==
  [][ (pc = "done" /\ written /\ pc' # "done" /\ argv' = argv
         /\ NoneExpiredAt(SavedFile.data, now'))
        => /\ \A c \in CodesOf(SavedFile.data) : c \notin Range(codesToScan')
           /\ existingCoupons' = SavedFile.data
    ]_vars

\* C13: the metadata a run writes has existingCoupons the number of retained
\* prior records, newCouponsFound the number of records the run found,
\* totalCoupons their sum, which is the length of the merged collection, and
\* scannedRanges the tokens used (the default ranges when none were given);
\* nothing of the previous metadata remains.
C13_Metadata ==
  (pc = "done" /\ writeLog[2].ok) =>
    /\ metaFile =
         [exists |-> TRUE,
          totalCoupons |-> Len(existingCoupons) + Len(DocEntries),
          scannedRanges |-> IF argv = <<>> THEN DEFAULT_RANGES ELSE argv,
          newCouponsFound |-> Len(DocEntries),
          existingCoupons |-> Len(existingCoupons)]
    /\ written => metaFile.totalCoupons = Len(SavedFile.data)

\* a second run without tokens that retains a record, finds one and writes
\* its metadata over the first run's
C13_Witness ==
  /\ pc = "done"
  /\ run = 2
  /\ writeLog[2].ok
  /\ argv = <<>>
  /\ existingCoupons # <<>>
  /\ DocEntries # <<>>
  /\ metaFile.totalCoupons = 2

\* C14: a failed write of the collection does not abort the run and the
\* write of the metadata is still attempted; a failed write of the metadata
\* does not abort the run either: a run that reaches its end has attempted
\* both writes, in order, whatever the outcome of each.
C14_WritesIndependent ==
  /\ pc # "aborted"
  /\ pc = "persist" => writeLog = <<>>
  /\ pc = "done" =>
       /\ Len(writeLog) = 2
       /\ writeLog[1].file = "coupons"
       /\ writeLog[2].file = "metadata"
       /\ written = writeLog[1].ok
       /\ writeLog[2].ok => metaFile.exists

\* a run whose collection write failed and whose metadata write succeeded
C14_Witness ==
  /\ pc = "done"
  /\ ~writeLog[1].ok
  /\ writeLog[2].ok
  /\ ~SavedFile.exists
  /\ metaFile.exists

\* C15 as stated: a record is in the run's results only for a code whose
\* probe was confirmed valid and whose detail page yielded a title.
C15_OnlyTitledPages ==
  /\ Len(validCoupons) = Len(DocEntries)
  /\ \A k \in 1..Len(validCoupons) :
       /\ validCoupons[k].code \in ValidCodes
       /\ DocEntries[k].result = "doc"

\* C15: a record is in the run's results only for a code whose probe was
\* confirmed valid and whose detail fetch returned a document, one record per
\* document; a document without a title marker gives a record too, titled
\* with the placeholder.
C15_RecordPerDocument ==
  /\ Len(validCoupons) = Len(DocEntries)
  /\ \A k \in 1..Len(validCoupons) :
       /\ validCoupons[k].code = DocEntries[k].code
       /\ validCoupons[k].code \in ValidCodes
       /\ DocEntries[k].result = "untitled"
            => validCoupons[k].title = Placeholder(validCoupons[k].code)
       /\ DocEntries[k].result = "doc"
            => validCoupons[k].title # Placeholder(validCoupons[k].code)

\* a successful page without title markers has given a placeholder record
C15_Witness ==
  \E k \in 1..Len(validCoupons) :
    /\ DocEntries[k].result = "untitled"
    /\ validCoupons[k].title = Placeholder(validCoupons[k].code)

\* the first rule of extractMinPurchasePrice, in the fixed order, that
\* matches the text; 0 when none does
FirstRule(s) ==
  IF \E k \in 1..7 : RuleMatches(k, s)
  THEN Smallest({k \in 1..7 : RuleMatches(k, s)})
  ELSE 0

\* C16: extractMinPurchasePrice returns the value of the first rule, in the
\* order (han)yi-shang amount, combo total, starting price, 9-inch or small
\* pizza buy-one-get-one, buy-small-get-small, single large pizza half price,
\* single large pizza discount, that matches the text, and undefined when no
\* rule matches; so an explicit (han)yi-shang amount wins over the
\* buy-one-get-one fallback wherever the two stand in the text.
C16_FirstRuleWins ==
  pc = "minPurchasePrice" =>
    /\ FirstRule(inText) = 0 => outValue = NoResult
    /\ FirstRule(inText) # 0 => outValue = Returned(RuleValue(FirstRule(inText), inText))
    /\ Contains(inText, AtLeastPhrase(Plain460)) => outValue = Returned(Num(460))
    /\ (FirstRule(inText) = 4) => outValue = Returned(Num(SmallPizzaPrice))

\* the fallback phrase before the explicit amount: the amount is returned
C16_Witness ==
  /\ pc = "minPurchasePrice"
  /\ inText = SmallPizza \o BuyOneGetOne \o AtLeastPhrase(Plain460)
  /\ outValue = Returned(Num(460))

\* the number an amount stands for: its digits, separators removed
AmountValue(amount) == Num(DecValue(RemoveCommas(amount)))

\* C18: each number that is derived by pattern matching is parsed from the
\* whole digit group with the thousands separators removed: for a text that
\* is a marker followed by the amount 2,098, the original price, the
\* maximum-value price and the minimum purchase price are 2098.
C18_WholeDigitGroup ==
  \A amount \in {Plain460, Grouped2098} :
    /\ (pc = "originalPrice" /\ inText = OriginalPhrase(amount))
         => outValue = Returned(AmountValue(amount))
    /\ (pc = "maxValuePrice" /\ inText = MaxValuePhrase(amount))
         => outValue = Returned(AmountValue(amount))
    /\ (pc = "minPurchasePrice"
          /\ inText \in {AtLeastPhrase(amount), TotalPhrase(amount)})
         => outValue = Returned(AmountValue(amount))

\* the only mention of delivery or takeout in s is xian-wai-song: there is
\* no wai-dai, and wai-song stands nowhere but after xian
OnlyMentionIsOnlyDelivery(s) ==
  /\ Contains(s, OnlyDelivery)
  /\ ~Contains(s, Takeout)
  /\ ~Contains(s, DeliveryOnlyLabel)
  /\ \A i \in 1..Len(s) :
       MatchAt(s, i, Delivery) => MatchAt(s, i - 1, OnlyDelivery)

HasIdAndName(item) ==
  /\ item.realId # "" \/ item.elementId \notin {"", "itemss_p"}
  /\ item.nameText \notin {"", "  "}

\* the products of category c, in order
ProductsOfCategory(products, c) == SelectSeq(products, LAMBDA p : p.categoryId = c)

\* C19: every product record has a non-empty id and a non-empty name; an
\* element without an id or without a name gives no record and the other
\* elements of its page give theirs: a page that was fetched gives one product
\* per element with an id and a name.
C19_IdAndName ==
  /\ \A k \in 1..Len(allProducts) :
       allProducts[k].id # "" /\ allProducts[k].name # ""
  /\ \A k \in 1..Len(menuLog) :
       menuLog[k].resp.ok =>
         Len(ProductsOfCategory(allProducts, menuLog[k].ct))
           = Len(SelectSeq(menuLog[k].resp.page, HasIdAndName))
  /\ menuFile.exists =>
       \A k \in 1..Len(menuFile.data) :
         menuFile.data[k].id # "" /\ menuFile.data[k].name # ""

\* the first category gave the page with an element without id and one
\* without name: its two other elements are products
C19_Witness ==
  /\ pc = "menuDone"
  /\ menuLog[1].resp.ok
  /\ menuLog[1].resp.page = FullPage
  /\ Len(ProductsOfCategory(menuFile.data, 1)) = 2

\* C20: the menu run fetches the categories 1 to 8 one after the other and
\* writes the concatenation of their products in category order; a category
\* whose fetch failed, by a non-success status or by an exception, gives
\* nothing and the later categories are still fetched; the file is
\* overwritten as a whole.
C20_MenuRun ==
  /\ \A k \in 1..Len(menuLog) : menuLog[k].ct = k
  /\ pc \in {"menuWrite", "menuDone", "menuFailed"} => Len(menuLog) = NumCategories
  /\ \A j, k \in 1..Len(allProducts) :
       j < k => allProducts[j].categoryId <= allProducts[k].categoryId
  /\ \A k \in 1..Len(menuLog) :
       (menuLog[k].resp.rejected \/ ~menuLog[k].resp.ok)
         => ProductsOfCategory(allProducts, k) = <<>>
  /\ pc = "menuDone" => menuFile = JsonFile(allProducts)

\* a finished menu run over an older file, with a category that was
\* rejected, one that had an error status, and products of a later category
C20_Witness ==
  /\ pc = "menuDone"
  /\ pubDir
  /\ menuLog[1].resp.rejected
  /\ ~menuLog[2].resp.rejected /\ ~menuLog[2].resp.ok
  /\ ProductsOfCategory(menuFile.data, 3) # <<>>
  /\ \A k \in 1..Len(menuFile.data) : menuFile.data[k] # OldMenu[1]

\* C21: after a validity probe the retained session token is the
\* response's set-cookie value when the response carries one, whatever its
\* status and body, and is unchanged otherwise, a network error included; a
\* detail fetch never changes the token.
C21_TokenFollowsSetCookie ==
  [][pc = "request" =>
       /\ pc' = "checked" =>
             globalCookie' = IF ~inResponse.rejected /\ inResponse.setCookie # ""
                             THEN inResponse.setCookie ELSE globalCookie
       /\ pc' = "fetched" => globalCookie' = globalCookie]_vars

\* a probe answered with a non-success status and a set-cookie header has
\* left that header's value in the token
C21_Witness ==
  /\ pc = "checked"
  /\ ~inResponse.rejected /\ ~inResponse.ok
  /\ inResponse.setCookie = "sid=A"
  /\ globalCookie = "sid=A"

\* the requests of the run that have not ended yet
Outstanding == {i \in DOMAIN reqLog : reqLog[i].result = "pending"}

\* C24: at most one network request is outstanding at any time: while the
\* pacing delay runs none is, while main awaits the probe only that probe is,
\* while it awaits the detail fetch only that fetch is; and a probe is issued
\* only by the end of a pacing delay that ran with no request outstanding.
C24_OneRequestAtATime ==
  /\ [](/\ Cardinality(Outstanding) <= 1
        /\ Outstanding \subseteq {Len(reqLog)}
        /\ pc \in {"delay", "persist", "done"} => Outstanding = {}
        /\ pc = "probing" =>
              /\ Outstanding = {Len(reqLog)}
              /\ reqLog[Len(reqLog)].kind = "probe"
              /\ reqLog[Len(reqLog)].code = codesToScan[idx]
        /\ pc = "fetching" =>
              /\ Outstanding = {Len(reqLog)}
              /\ reqLog[Len(reqLog)].kind = "detail"
              /\ reqLog[Len(reqLog)].code = codesToScan[idx])
  /\ [][(/\ Len(reqLog') = Len(reqLog) + 1
         /\ reqLog'[Len(reqLog')].kind = "probe")
        => pc = "delay" /\ Outstanding = {}]_vars

\* the delay before the second candidate's probe runs after the first
\* candidate's probe and detail fetch have both ended
C24_Witness ==
  /\ pc = "delay"
  /\ idx = 2
  /\ Len(reqLog) = 2
  /\ reqLog[1].kind = "probe" /\ reqLog[1].result = "valid"
  /\ reqLog[2].kind = "detail" /\ reqLog[2].result = "doc"

\* C26: the collection file a finished run has written is the file the next
\* run loads, with or without the public directory, so that the codes of the
\* persisted records the expiry filter keeps are known codes of the next run.
C26_WrittenFileIsLoaded ==
  [][(pc = "done" /\ written /\ pc' # "done")
       => /\ loadedCoupons' = SavedFile.data
          /\ \A k \in 1..Len(SavedFile.data) :
               NotExpired(SavedFile.data[k], now')
                 => SavedFile.data[k].code \in existingCodes'
    ]_vars

\* the calendar day of a time
DayOf(t) == t \div TicksPerDay

\* C28: a loaded prior record with a calendar date as validUntil is dropped
\* only when that date is a day before the day of the run: a record whose
\* validUntil is the day of the run is retained at every time of that day.
C28_RetainedThroughLastDay ==
  run > 0 =>
    \A k \in 1..Len(loadedCoupons) :
      LET r == loadedCoupons[k]
          d == DateTime(r.validUntil)
      IN (r.validUntil # "" /\ ~IsNaN(d) /\ DayOf(d.val) >= DayOf(now))
           => r \in Range(existingCoupons)

\* a record the expiry filter has no reason to drop in a run that follows the
\* clock reading last: no validUntil, or a date not in the past at any later time
NeverInThePast(r, last) ==
  \/ r.validUntil = ""
  \/ LET d == DateTime(r.validUntil)
     IN ~IsNaN(d) /\ \A t \in last..MaxNow : d.val >= t

\* C27: when a run ends, every record of the collection file it found whose
\* validUntil is empty or not in the past is in the collection file, also
\* when the load of the file raised an error.
C27_PriorRecordsSurvive ==
  [][(pc = "persist" /\ pc' = "done")
       => \A k \in 1..Len(pubFile.data) :
            NeverInThePast(pubFile.data[k], now)
              => pubFile.data[k] \in Range(SavedFile'.data)
    ]_vars

\* C29: the metadata a run has written has totalCoupons the number of records
\* of the collection file beside it when the run ends, also when the write of
\* the collection failed.
C29_TotalMatchesFile ==
  (pc = "done" /\ writeLog[2].ok) => metaFile.totalCoupons = Len(SavedFile.data)

\* the text without its disclaimers, each with its asterisk when it has one
RECURSIVE WithoutDisclaimer(_)
WithoutDisclaimer(s) ==
  IF ~Contains(s, Disclaimer) THEN s
  ELSE LET i == Smallest({x \in 1..Len(s) : MatchAt(s, x, Disclaimer)})
           j == IF i > 1 /\ s[i - 1] = "*" THEN i - 1 ELSE i
       IN SubSeq(s, 1, j - 1)
            \o WithoutDisclaimer(SubSeq(s, i + Len(Disclaimer), Len(s)))

\* C23: a text whose only mentions of delivery are inside the disclaimer,
\* with or without its asterisk, gets the delivery type of the same text
\* without the disclaimer.
C23_DisclaimerIgnored ==
  (/\ pc = "deliveryType"
   /\ Contains(inText, Disclaimer)
   /\ ~Contains(WithoutDisclaimer(inText), Delivery))
    => outValue = extractDeliveryType(WithoutDisclaimer(inText))

\* the page has the explicit original-price marker, and the value it gives
HasOriginalMark(page) == Contains(HtmlText(page), OriginalMark \o Dollar)
OriginalMarkValue(page) ==
  ParseInt(RemoveCommas(PatternGroup(originalPricePattern, HtmlText(page))))

\* the text of the title and the items has the maximum-value phrase
HasMaxValuePhrase(title, page) == Contains(AllText(title, page), MaxValueMark)

\* C22: the original price of a record is the value of the explicit marker
\* whenever the page has that marker; else the value of the maximum-value
\* phrase of the title and the items when there is one (in the crawler that
\* reads it), else one and a half times the price (in the crawler that has
\* this heuristic), else 0.
C22_OriginalPricePrecedence ==
  /\ pc = "details" =>
        outValue.originalPrice =
          IF HasOriginalMark(inPage) THEN OriginalMarkValue(inPage)
          ELSE IF HasMaxValuePhrase(outValue.title, inPage)
               THEN extractMaxValuePrice(AllText(outValue.title, inPage)).value
               ELSE Num(0)
  /\ pc = "crawlerDetails" =>
        outValue.originalPrice =
          IF HasOriginalMark(inPage) THEN OriginalMarkValue(inPage)
          ELSE OneAndAHalf(PriceOf(inPage, CrawlerDefaultPrice))

\* C25: the title of every record fetchCouponDetails makes is non-empty, and
\* it is the placeholder made from the code when neither the heading nor the
\* product name of the page gives a non-empty text.
C25_TitleNeverEmpty ==
  pc \in {"details", "crawlerDetails"} =>
    /\ outValue.title # <<>>
    /\ (TrimText(inPage.h1.text) = <<>> /\ TrimText(inPage.prodName.text) = <<>>)
         => outValue.title = Placeholder(PageCode)

\* C30: when the loads of the front end have ended the spinner is gone, and
\* when coupons.json was fetched and parsed the coupon list is shown with the
\* coupons and no error is set, whatever the fetches of menu.json and
\* metadata.json gave.
C30_CouponsShownWhenLoaded ==
  pc = "settled" =>
    /\ ~app.loading
    /\ site.coupons = "json" =>
          (app.coupons /\ ~app.error /\ View(app) = "list")

====
